---- MODULE Spec2Model ----
(***************************************************************************)
(* Model of scripts/csv_to_json.py: convert_csv_to_json reads a bill CSV   *)
(* with csv.DictReader, normalises each row and writes a JSON payload.     *)
(*                                                                         *)
(* A Python str is a sequence of one-character strings, so that strip,     *)
(* lower, split, replace, strptime, strftime and float are computed        *)
(* character by character.  Python's None and a raised exception are the   *)
(* one-element sequences None and Raised(cls), which are no str: their     *)
(* element is not a single character.                                      *)
(***************************************************************************)
EXTENDS Integers, Sequences, FiniteSets, TLC

\* ------------------------------------------------------------------ bounds
\* Rows the reader yields before the file ends, in the row-loop specification.
MaxRows == 2

\* Rows per file in the header specification and in the date specification.
MaxHeaderRows == 1

MaxDateRows == 1

\* ------------------------------------------------------------ str helpers
None == <<"None">>

Raised(cls) == <<"raise", cls>>

IsRaised(v) == Len(v) = 2 /\ v[1] = "raise"

\* The characters of the model's strings, in code point order (ASCII).
CodePoints ==
  <<" ", "$", ",", "-", ".", "/",
    "0", "1", "2", "3", "4", "5", "6", "7", "8", "9",
    "A", "B", "C", "D", "E", "F", "G", "H", "I", "J", "K", "L", "M",
    "N", "O", "P", "Q", "R", "S", "T", "U", "V", "W", "X", "Y", "Z",
    "a", "b", "c", "d", "e", "f", "g", "h", "i", "j", "k", "l", "m",
    "n", "o", "p", "q", "r", "s", "t", "u", "v", "w", "x", "y", "z">>

\* ord(c), counted from the first character of the model
OrdTable ==
  [c \in {CodePoints[k] : k \in 1..Len(CodePoints)} |->
     CHOOSE k \in 1..Len(CodePoints) : CodePoints[k] = c]

Ord(c) == OrdTable[c]

IsDigit(c) == c \in {"0", "1", "2", "3", "4", "5", "6", "7", "8", "9"}

DigitVal(c) == Ord(c) - Ord("0")

DigitChar(n) == CodePoints[Ord("0") + n]

IsUpper(c) == Ord(c) >= Ord("A") /\ Ord(c) <= Ord("Z")

\* str.lower, one character
LowerTable ==
  [c \in DOMAIN OrdTable |->
     IF IsUpper(c) THEN CodePoints[Ord(c) - Ord("A") + Ord("a")] ELSE c]

LowerChar(c) == LowerTable[c]

\* str.lower
lower(s) == [k \in 1..Len(s) |-> LowerChar(s[k])]

RECURSIVE lstrip(_)
lstrip(s) == IF s # <<>> /\ Head(s) = " " THEN lstrip(Tail(s)) ELSE s

RECURSIVE rstrip(_)
rstrip(s) ==
  IF s # <<>> /\ s[Len(s)] = " " THEN rstrip(SubSeq(s, 1, Len(s) - 1)) ELSE s

\* str.strip() with no argument; the only whitespace of the model is " "
strip(s) == rstrip(lstrip(s))

\* str.replace(c, '')
RECURSIVE remove(_, _)
remove(s, c) ==
  IF s = <<>> THEN <<>>
  ELSE IF Head(s) = c THEN remove(Tail(s), c)
  ELSE <<Head(s)>> \o remove(Tail(s), c)

\* c in s
Contains(s, c) == \E k \in 1..Len(s) : s[k] = c

\* str.split(sep) for a one-character separator: the list of segments
RECURSIVE split(_, _)
split(s, sep) ==
  IF ~Contains(s, sep) THEN <<s>>
  ELSE LET k == CHOOSE j \in 1..Len(s) :
                  s[j] = sep /\ \A m \in 1..(j - 1) : s[m] # sep
       IN <<SubSeq(s, 1, k - 1)>> \o split(SubSeq(s, k + 1, Len(s)), sep)

\* Python's str comparison: s < t, by code point, a proper prefix first
RECURSIVE StrLess(_, _)
StrLess(s, t) ==
  IF t = <<>> THEN FALSE
  ELSE IF s = <<>> THEN TRUE
  ELSE IF Head(s) # Head(t) THEN Ord(Head(s)) < Ord(Head(t))
  ELSE StrLess(Tail(s), Tail(t))

\* Mutant of sorted: sorted(list(S), reverse=True)
RECURSIVE ReverseSorted(_)
ReverseSorted(S) ==
  IF S = {} THEN <<>>
  ELSE LET m == CHOOSE x \in S : \A y \in S \ {x} : StrLess(y, x)
       IN <<m>> \o ReverseSorted(S \ {m})

\* sorted(list(S)) of a set of str
RECURSIVE sorted(_)
sorted(S) ==
  IF S = {} THEN <<>>
  ELSE LET m == CHOOSE x \in S : \A y \in S \ {x} : StrLess(x, y)
       IN <<m>> \o sorted(S \ {m})

\* ------------------------------------------------ header index and get_val
\* The six logical field names as convert_csv_to_json spells them.
kName == <<"N", "a", "m", "e">>

kCategory == <<"C", "a", "t", "e", "g", "o", "r", "y">>

kDueDate == <<"D", "u", "e", " ", "D", "a", "t", "e">>

kAmount == <<"A", "m", "o", "u", "n", "t">>

kRecurrence == <<"R", "e", "c", "u", "r", "r", "e", "n", "c", "e">>

kNotes == <<"N", "o", "t", "e", "s">>

dOther == <<"O", "t", "h", "e", "r">>

dZero == <<"0">>

dMonthly == <<"M", "o", "n", "t", "h", "l", "y">>

\* Mutant of HeaderKey: h.lower(), the strip forgotten
HeaderKeyNoStrip(h) == lower(h)

\* The key under which a header is stored in the headers dict.
HeaderKey(h) == lower(strip(h))

\* Line 24: the headers dict.  A dict comprehension keeps, for each key, the
\* last header that has it.
RECURSIVE HeaderKeys(_)
HeaderKeys(fields) ==
  IF fields = <<>> THEN <<>>
  ELSE <<HeaderKey(Head(fields))>> \o HeaderKeys(Tail(fields))

HeaderIndex(fields) ==
  LET keys == HeaderKeys(fields)
  IN [k \in {keys[j] : j \in 1..Len(fields)} |->
        fields[CHOOSE j \in 1..Len(fields) :
                 keys[j] = k /\ \A m \in (j + 1)..Len(fields) : keys[m] # k]]

\* headers.get(k): the original header stored under k, None when there is none.
HeadersGet(hdrs, k) == IF k \in DOMAIN hdrs THEN hdrs[k] ELSE None

\* row[h] of the dict csv.DictReader builds: the cell under the last column
\* whose header is h, None (restval) when the row is too short to have it.
DictRow(fields, cells, h) ==
  LET idx == {j \in 1..Len(fields) : fields[j] = h}
      j == CHOOSE j \in idx : \A m \in idx : m <= j
  IN IF j <= Len(cells) THEN cells[j] ELSE None

\* cell.strip(), where cell may be None
StripCell(cell) == IF cell = None THEN Raised("AttributeError") ELSE strip(cell)

\* The truth value of actual_key: neither None nor the empty str
Truthy(actual_key) == actual_key # None /\ actual_key # <<>>

\* row[actual_key].strip() if actual_key else default; None.strip() raises
Fetch(actual_key, fields, cells, default) ==
  IF Truthy(actual_key)
  THEN StripCell(DictRow(fields, cells, actual_key))
  ELSE default

\* v or default
DefaultIfEmpty(v, default) == IF v = <<>> THEN default ELSE v

\* Mutant of get_val: (row[actual_key].strip() or default), a blank cell
\* treated like an absent header
get_val_or_default(hdrs, fields, cells, key, default) ==
  DefaultIfEmpty(Fetch(HeadersGet(hdrs, lower(key)), fields, cells, default), default)

\* get_val(key, default) on the current row
get_val(hdrs, fields, cells, key, default) ==
  Fetch(HeadersGet(hdrs, lower(key)), fields, cells, default)

\* ------------------------------------------------- datetime.strptime model
\* A format is the sequence of its directives and literal characters.
fmt_y_m_d == <<"%y", "-", "%m", "-", "%d">>

fmt_Y_m_d == <<"%Y", "-", "%m", "-", "%d">>

fmt_mdy == <<"%m", "/", "%d", "/", "%y">>

fmt_mdY == <<"%m", "/", "%d", "/", "%Y">>

fmt_Ymd == <<"%Y", "%m", "%d">>

NoMatch == [ok |-> FALSE, end |-> 0, Y |-> 0, y |-> 0, m |-> 0, d |-> 0]

\* k digits of s start at position p
DigitsAt(s, p, k) == p + k - 1 <= Len(s) /\ \A j \in p..(p + k - 1) : IsDigit(s[j])

RECURSIVE IntOf(_)
IntOf(s) == IF s = <<>> THEN 0 ELSE 10 * IntOf(SubSeq(s, 1, Len(s) - 1)) + DigitVal(s[Len(s)])

\* The lengths a directive can consume at position p of s, in the order the
\* regular expression strptime compiles for it tries its alternatives:
\*   %Y \d\d\d\d      %y \d\d      %m 1[0-2]|0[1-9]|[1-9]
\*   %d 3[0-1]|[1-2]\d|0[1-9]|[1-9]| [1-9]      a literal: itself
Alternatives(s, p, dir) ==
  IF dir = "%Y" THEN (IF DigitsAt(s, p, 4) THEN <<4>> ELSE <<>>)
  ELSE IF dir = "%y" THEN (IF DigitsAt(s, p, 2) THEN <<2>> ELSE <<>>)
  ELSE IF dir = "%m" THEN
    (IF DigitsAt(s, p, 2) /\ ( (s[p] = "1" /\ DigitVal(s[p + 1]) <= 2)
                            \/ (s[p] = "0" /\ s[p + 1] # "0") )
     THEN <<2>> ELSE <<>>)
    \o (IF DigitsAt(s, p, 1) /\ s[p] # "0" THEN <<1>> ELSE <<>>)
  ELSE IF dir = "%d" THEN
    (IF DigitsAt(s, p, 2) /\ ( (s[p] = "3" /\ DigitVal(s[p + 1]) <= 1)
                            \/ s[p] \in {"1", "2"}
                            \/ (s[p] = "0" /\ s[p + 1] # "0") )
     THEN <<2>> ELSE <<>>)
    \o (IF DigitsAt(s, p, 1) /\ s[p] # "0" THEN <<1>> ELSE <<>>)
    \o (IF p + 1 <= Len(s) /\ s[p] = " " /\ IsDigit(s[p + 1]) /\ s[p + 1] # "0"
        THEN <<2>> ELSE <<>>)
  ELSE (IF p <= Len(s) /\ s[p] = dir THEN <<1>> ELSE <<>>)

\* The number a directive's text stands for (a literal stands for nothing).
FieldOf(acc, dir, text) ==
  IF dir = "%Y" THEN [acc EXCEPT !.Y = IntOf(text)]
  ELSE IF dir = "%y" THEN [acc EXCEPT !.y = IntOf(text)]
  ELSE IF dir = "%m" THEN [acc EXCEPT !.m = IntOf(text)]
  ELSE IF dir = "%d" THEN [acc EXCEPT !.d = IntOf(remove(text, " "))]
  ELSE acc

\* re.match of the compiled format at position p, from directive k on: the
\* first way to match in backtracking order, NoMatch when there is none.
RECURSIVE Match(_, _, _, _, _)
RECURSIVE TryAlternatives(_, _, _, _, _, _)
Match(s, p, fmt, k, acc) ==
  IF k > Len(fmt) THEN [acc EXCEPT !.ok = TRUE, !.end = p]
  ELSE TryAlternatives(s, p, fmt, k, acc, Alternatives(s, p, fmt[k]))

TryAlternatives(s, p, fmt, k, acc, alts) ==
  IF alts = <<>> THEN NoMatch
  ELSE LET n == Head(alts)
           r == Match(s, p + n, fmt, k + 1,
                      FieldOf(acc, fmt[k], SubSeq(s, p, p + n - 1)))
       IN IF r.ok THEN r ELSE TryAlternatives(s, p, fmt, k, acc, Tail(alts))

IsLeap(y) == y % 4 = 0 /\ (y % 100 # 0 \/ y % 400 = 0)

DaysInMonth(y, m) ==
  IF m = 2 THEN (IF IsLeap(y) THEN 29 ELSE 28)
  ELSE IF m \in {4, 6, 9, 11} THEN 30 ELSE 31

\* datetime.strptime(s, fmt): the date <<year, month, day>>, or the raised
\* exception exc, a ValueError: no match, unconverted data remains, year 0, day out of range.
\* %y puts 00..68 in 2000..2068 and 69..99 in 1969..1999.
strptime(s, fmt) ==
  LET r == Match(s, 1, fmt, 1, NoMatch)
      year == IF \E k \in 1..Len(fmt) : fmt[k] = "%y"
              THEN (IF r.y <= 68 THEN 2000 + r.y ELSE 1900 + r.y)
              ELSE r.Y
      bad == [exc |-> "ValueError", date |-> <<0, 0, 0>>]
  IN IF ~r.ok THEN bad
     ELSE IF r.end # Len(s) + 1 THEN bad
     ELSE IF year < 1 THEN bad
     ELSE IF r.d > DaysInMonth(year, r.m) THEN bad
     ELSE [exc |-> "none", date |-> <<year, r.m, r.d>>]

\* The decimal digits of n, zero-padded to at least w characters.
RECURSIVE Digits(_, _)
Digits(n, w) ==
  IF n < 10 /\ w <= 1 THEN <<DigitChar(n)>>
  ELSE Digits(n \div 10, w - 1) \o <<DigitChar(n % 10)>>

\* dt.strftime('%Y-%m-%d').  The C library renders %Y: glibc does not pad a
\* year below 1000 to four digits, other platforms do (pad says which).
strftime(dt, pad) ==
  Digits(dt[1], IF pad THEN 4 ELSE 1) \o <<"-">> \o Digits(dt[2], 2)
    \o <<"-">> \o Digits(dt[3], 2)

\* except <cls>: catches an exception of class exc.  Every class the model
\* raises derives from Exception.
Catches(cls, exc) == cls = "Exception" \/ cls = exc

\* Mutant of RowHandler: except ValueError
RowHandlerValueError == "ValueError"

\* Line 81: the class the per-row handler catches
RowHandler == "Exception"

\* Line 66: the class the date handler catches
DateHandler == "ValueError"

\* The format the separator and the token shape of due_date select.
SelectFormat(due_date) ==
  IF Contains(due_date, "-")
  THEN (IF Len(split(due_date, "-")[1]) = 2 THEN fmt_y_m_d ELSE fmt_Y_m_d)
  ELSE IF Contains(due_date, "/")
  THEN (LET parts == split(due_date, "/")
        IN IF Len(parts[Len(parts)]) = 2 THEN fmt_mdy ELSE fmt_mdY)
  ELSE fmt_Ymd

\* Lines 47-70: formatted_date and the warning the block prints.
NormalizeDate(due_date, pad) ==
  IF due_date # <<>>
  THEN LET dt == strptime(due_date, SelectFormat(due_date))
       IN IF dt.exc # "none" /\ Catches(DateHandler, dt.exc)
          THEN [date |-> due_date, warn |-> "parse"]
          ELSE [date |-> strftime(dt.date, pad), warn |-> "none"]
  ELSE [date |-> <<>>, warn |-> "empty"]

\* ------------------------------------------------------------ float model
\* float(s) for s over the model's characters: surrounding whitespace, an
\* optional sign, digits with at most one point and at least one digit.
\* (Exponents, underscores, inf and nan need characters the amounts of the
\* model do not use.)
IsFloatLiteral(s) ==
  LET t == strip(s)
      u == IF t # <<>> /\ Head(t) \in {"-", "+"} THEN Tail(t) ELSE t
      points == {k \in 1..Len(u) : u[k] = "."}
  IN /\ \A k \in 1..Len(u) : IsDigit(u[k]) \/ u[k] = "."
     /\ Cardinality(points) <= 1
     /\ \E k \in 1..Len(u) : IsDigit(u[k])

\* The value of a float literal as <<n, k>>, standing for n / 10^k, with no
\* trailing zero in the fraction.
RECURSIVE Reduce(_)
Reduce(v) == IF v[2] > 0 /\ v[1] % 10 = 0 THEN Reduce(<<v[1] \div 10, v[2] - 1>>) ELSE v

FloatValue(s) ==
  LET t == strip(s)
      neg == t # <<>> /\ Head(t) = "-"
      u == IF t # <<>> /\ Head(t) \in {"-", "+"} THEN Tail(t) ELSE t
      k == IF Contains(u, ".") THEN Len(split(u, ".")[2]) ELSE 0
      n == IntOf(remove(u, "."))
  IN Reduce(<<IF neg THEN 0 - n ELSE n, k>>)

\* Mutant of AmountDue: an amount that does not parse counts as 0
AmountDueLenient(amount) ==
  LET text == remove(remove(amount, "$"), ",")
  IN [exc |-> "none",
      value |-> IF IsFloatLiteral(text) THEN FloatValue(text) ELSE <<0, 0>>]

\* float(amount.replace('$', '').replace(',', '')), line 76: the value, or
\* the raised exception exc
AmountDue(amount) ==
  LET text == remove(remove(amount, "$"), ",")
  IN IF IsFloatLiteral(text) THEN [exc |-> "none", value |-> FloatValue(text)]
     ELSE [exc |-> "ValueError", value |-> <<0, 0>>]

\* ------------------------------------------------------- the row loop body
\* Lines 32-37: the six get_val calls, in order.
Extract(hdrs, fields, cells) ==
  << get_val(hdrs, fields, cells, kName, <<>>),
     get_val(hdrs, fields, cells, kCategory, dOther),
     get_val(hdrs, fields, cells, kDueDate, <<>>),
     get_val(hdrs, fields, cells, kAmount, dZero),
     get_val(hdrs, fields, cells, kRecurrence, dMonthly),
     get_val(hdrs, fields, cells, kNotes, <<>>) >>

\* The locals the six calls assign, in order.
Locals == <<"name", "category", "due_date", "amount", "recurrence", "notes">>

Unbound ==
  [name |-> None, category |-> None, due_date |-> None, amount |-> None,
   recurrence |-> None, notes |-> None]

\* The first of the six calls that raises, 0 when none does.
FirstRaise(vals) ==
  IF \A k \in 1..Len(vals) : ~IsRaised(vals[k]) THEN 0
  ELSE CHOOSE k \in 1..Len(vals) :
         IsRaised(vals[k]) /\ \A m \in 1..(k - 1) : ~IsRaised(vals[m])

\* The locals after lines 32-37: an assignment before the raising call takes
\* effect, the raising one and those after it do not.
Assign(old, vals) ==
  LET r == FirstRaise(vals)
      new(k) == IF r = 0 \/ k < r THEN vals[k] ELSE old[Locals[k]]
  IN [name |-> new(1), category |-> new(2), due_date |-> new(3),
      amount |-> new(4), recurrence |-> new(5), notes |-> new(6)]

\* Mutant of RequiredMissing: not name and not due_date
RequiredBothMissing(name, due_date) == name = <<>> /\ due_date = <<>>

\* Mutant of RequiredMissing: not name, the due date not checked
RequiredNameOnly(name, due_date) == name = <<>>

\* Line 39: not name or not due_date
RequiredMissing(name, due_date) == name = <<>> \/ due_date = <<>>

\* Lines 43-44: what the row adds to the categories set
CategoryToAdd(category) == IF category # <<>> THEN {category} ELSE {}

\* Lines 72-79: the bill dict; building it raises when float does
Bill(l, formatted_date) ==
  [name |-> l.name, category |-> l.category, dueDate |-> formatted_date,
   amountDue |-> AmountDue(l.amount).value, recurrence |-> l.recurrence,
   notes |-> l.notes]

\* Mutant of AppendBill: bills.insert(0, bill)
PrependBill(bs, bill) == <<bill>> \o bs

\* Line 80: bills.append(bill)
AppendBill(bs, bill) == Append(bs, bill)

\* A console line: its kind and the row index or bill count it reports.
Line(kind, n) == [kind |-> kind, n |-> n]

\* One pass of the loop body (lines 31-82) over the row `cells`, row index i
\* (0-based): what it leaves in the locals, adds to categories and bills,
\* prints, and the exception that leaves the body, if any.
RowStep(old, hdrs, fields, cells, i, cats, bs, pad) ==
  LET vals == Extract(hdrs, fields, cells)
      l == Assign(old, vals)
      skipLine == Line("skip", i + 1)
      errLine == Line("error", i + 1)
      nd == NormalizeDate(l.due_date, pad)
      warned == IF nd.warn = "parse" THEN <<Line("warn_parse", i + 1)>>
                ELSE IF nd.warn = "empty" THEN <<Line("warn_empty", i + 1)>>
                ELSE <<>>
      amountDue == AmountDue(l.amount)
      base == [locals |-> l, categories |-> cats, bills |-> bs,
               lines |-> <<>>, escaped |-> "none"]
      raise(st, exc) ==
        IF Catches(RowHandler, exc)
        THEN [st EXCEPT !.lines = st.lines \o <<errLine>>]
        ELSE [st EXCEPT !.escaped = exc]
  IN IF FirstRaise(vals) # 0
     THEN raise(base, "AttributeError")
     ELSE IF RequiredMissing(l.name, l.due_date)
     THEN [base EXCEPT !.lines = <<skipLine>>]
     ELSE LET st == [base EXCEPT !.categories = cats \cup CategoryToAdd(l.category),
                                 !.lines = warned]
          IN IF amountDue.exc # "none" THEN raise(st, amountDue.exc)
             ELSE [st EXCEPT !.bills = AppendBill(bs, Bill(l, nd.date))]

\* Lines 84-89: the payload
Payload(bs, cats) ==
  [exportDate |-> "datetime.now().isoformat() + Z", version |-> "1.0",
   bills |-> bs, customCategories |-> sorted(cats)]

\* The payload variable before line 84 binds it.
NoPayload == [exportDate |-> "", version |-> "", bills |-> <<>>, customCategories |-> <<>>]

\* Mutant of ReturnOnFailure: return True
ReturnTrueOnFailure == "True"

\* Lines 14 and 99: what a failed run returns; line 95: what a run that wrote
\* the payload returns.
ReturnOnFailure == "False"

ReturnOnSuccess == "True"

\* ------------------------------------------------------------------ inputs
sRent == <<"R", "e", "n", "t">>

sGas == <<" ", "G", "a", "s", " ">>

sHome == <<"H", "o", "m", "e">>

sAuto == <<"A", "u", "t", "o">>

sHomePad == <<" ", "H", "o", "m", "e">>

sBlank == <<" ">>

sIso == <<"2", "0", "2", "4", "-", "0", "3", "-", "1", "5">>

sSlash == <<"0", "3", "/", "1", "5", "/", "2", "4">>

sNoDate == <<"n", "/", "a">>

sMoney == <<"$", "1", ",", "2", "3", "4", ".", "5", "6">>

sAbc == <<"a", "b", "c">>

sPlain == <<"1", "2", ".", "5", "0">>

sWeekly == <<"W", "e", "e", "k", "l", "y">>

sNote == <<"p", "a", "i", "d", " ">>

sExtra == <<"E", "x", "t", "r", "a">>

sX == <<"x">>

sNotADate == <<"n", "o", "t", "-", "a", "-", "d", "a", "t", "e">>

sTrailing == <<"2", "0", "2", "4", "-", "0", "3", "-", "1", "5", "x">>

sDayFirst == <<"1", "5", "-", "0", "3", "-", "2", "0", "2", "4">>

sYearFirst == <<"2", "0", "2", "4", "/", "0", "3", "/", "1", "5">>

sSpaceDay == <<"2", "0", "2", "4", "-", "0", "3", "-", " ", "5">>

Empty == <<>>

UpperChar(c) ==
  IF Ord(c) >= Ord("a") /\ Ord(c) <= Ord("z")
  THEN CodePoints[Ord(c) - Ord("a") + Ord("A")] ELSE c

\* The spellings a header takes in the input files.
Respell(style, h) ==
  IF style = "exact" THEN h
  ELSE IF style = "padded" THEN <<" ">> \o lower(h) \o <<" ">>
  ELSE [k \in 1..Len(h) |-> UpperChar(h[k])]

Styles == {"exact", "padded", "upper"}

AllSix == <<kName, kCategory, kDueDate, kAmount, kRecurrence, kNotes>>

Without(k) == SubSeq(AllSix, 1, k - 1) \o SubSeq(AllSix, k + 1, Len(AllSix))

\* Header rows: which columns a file has, before respelling.
Layouts ==
  {AllSix, <<kName, kDueDate>>, <<kDueDate, sExtra, kName>>}
    \cup {Without(k) : k \in 1..Len(AllSix)}

HeaderInputs(m) ==
  IF m = "rows" THEN {<<kName, kCategory, kDueDate, kAmount>>, <<kName, kDueDate>>}
  ELSE IF m = "date" THEN {<<kName, kDueDate>>}
  ELSE {[k \in 1..Len(lay) |-> Respell(st, lay[k])] : lay \in Layouts, st \in Styles}
         \cup {<<kName, Respell("padded", kName), kDueDate>>,
               <<Respell("upper", kDueDate), kName, kDueDate>>}

Years4 == { <<"2", "0", "2", "4">>, <<"2", "0", "2", "3">>, <<"1", "9", "0", "0">>,
            <<"2", "0", "0", "0">>, <<"0", "9", "9", "9">>, <<"0", "0", "0", "0">> }

Years2 == { <<"2", "4">>, <<"6", "9">>, <<"6", "8">>, <<"0", "0">> }

Months == { <<"0", "2">>, <<"2">>, <<"1", "2">>, <<"1", "3">> }

Days == { <<"2", "9">>, <<"3", "0">>, <<"3", "1">>, <<"5">>, <<"0", "0">> }

DateInputs ==
  {y \o <<"-">> \o mo \o <<"-">> \o d : y \in Years4 \cup Years2, mo \in Months, d \in Days}
    \cup {mo \o <<"/">> \o d \o <<"/">> \o y : y \in Years4 \cup Years2, mo \in Months, d \in Days}
    \cup {y \o mo \o d : y \in Years4, mo \in Months, d \in Days}
    \cup {sNotADate, sTrailing, sDayFirst, sYearFirst, sSpaceDay, sNoDate, sAbc, Empty}

\* The logical field a header of the input files spells, the header itself
\* when it spells none.
Spellings ==
  [h \in {Respell(st, AllSix[k]) : st \in Styles, k \in 1..Len(AllSix)} |->
     AllSix[CHOOSE k \in 1..Len(AllSix) : \E st \in Styles : Respell(st, AllSix[k]) = h]]

CanonOf(h) == IF h \in DOMAIN Spellings THEN Spellings[h] ELSE h

\* The cells a column holds, by the logical field of its header.
CellInputs(m, key) ==
  IF m = "rows" THEN
    (IF key = kName THEN {sRent, Empty}
     ELSE IF key = kCategory THEN {sHome, sAuto, Empty}
     ELSE IF key = kDueDate THEN {sIso, sNoDate, Empty}
     ELSE {sMoney, sAbc})
  ELSE IF m = "date" THEN
    (IF key = kName THEN {sRent} ELSE DateInputs)
  ELSE
    (IF key = kName THEN {sGas}
     ELSE IF key = kCategory THEN {sHomePad, sBlank}
     ELSE IF key = kDueDate THEN {sSlash}
     ELSE IF key = kAmount THEN {sPlain, Empty}
     ELSE IF key = kRecurrence THEN {sWeekly}
     ELSE IF key = kNotes THEN {sNote}
     ELSE {sX})

\* The rows the reader can yield under a header row: a cell for every column,
\* or fewer cells than columns.  DictReader never yields a row of no cells.
RECURSIVE FullRows(_, _)
FullRows(m, fields) ==
  IF fields = <<>> THEN {<<>>}
  ELSE {<<c>> \o r : c \in CellInputs(m, CanonOf(Head(fields))),
                     r \in FullRows(m, Tail(fields))}

RowLengths(m, n) == IF m = "rows" THEN {1, n} ELSE IF m = "date" THEN {n} ELSE {n - 1, n}

RowInputs(m, fields) ==
  {SubSeq(r, 1, n) : r \in FullRows(m, fields), n \in RowLengths(m, Len(fields))}

RowBound(m) ==
  IF m = "rows" THEN MaxRows ELSE IF m = "date" THEN MaxDateRows ELSE MaxHeaderRows

\* ----------------------------------------------------------- state machine
VARIABLES
  mode,        \* which input sets the run draws from
  padYear,     \* whether the platform's strftime pads %Y to four digits
  exists,      \* os.path.exists(csv_file_path)
  pc,          \* where convert_csv_to_json is
  fieldnames,  \* reader.fieldnames
  headers,     \* the headers dict of line 24
  rows,        \* the rows the reader has yielded so far
  locals,      \* name, category, due_date, amount, recurrence, notes
  bills,
  categories,
  payload,
  out,         \* the console lines printed so far
  outfile,     \* output_json_path: whether the run wrote it, and its content
  ioError,     \* the I/O step that raised, "none" when none did
  result       \* the value returned, None before the return

vars == <<mode, padYear, exists, pc, fieldnames, headers, rows, locals, bills, categories,
          payload, out, outfile, ioError, result>>

InitMode(m) ==
  /\ mode = m
  /\ padYear \in BOOLEAN
  /\ exists \in BOOLEAN
  /\ pc = "start"
  /\ fieldnames = None
  /\ headers = HeaderIndex(<<>>)
  /\ rows = <<>>
  /\ locals = Unbound
  /\ bills = <<>>
  /\ categories = {}
  /\ payload = NoPayload
  /\ out = <<>>
  /\ outfile = [written |-> "no", content |-> NoPayload]
  /\ ioError = "none"
  /\ result = None

Init == InitMode("rows")

InitDate == InitMode("date")

InitHeader == InitMode("header")

\* Lines 97-99: the outer handler
Fatal ==
  /\ out' = Append(out, Line("fatal", 0))
  /\ result' = <<ReturnOnFailure>>
  /\ pc' = "done"

\* Lines 12-14
NotFound ==
  /\ pc = "start"
  /\ ~exists
  /\ out' = Append(out, Line("notfound", 0))
  /\ result' = <<ReturnOnFailure>>
  /\ pc' = "done"
  /\ UNCHANGED <<mode, padYear, exists, fieldnames, headers, rows, locals, bills, categories,
                 payload, outfile, ioError>>

\* Lines 20-24: open the file, read the header row, build the headers dict
OpenCsv ==
  /\ pc = "start"
  /\ exists
  /\ \E fn \in HeaderInputs(mode) :
       /\ fieldnames' = fn
       /\ headers' = HeaderIndex(fn)
  /\ pc' = "rows"
  /\ UNCHANGED <<mode, padYear, exists, rows, locals, bills, categories, payload,
                 out, outfile, ioError, result>>

\* Lines 20-24 raising: open() or the read of the header row fails, or the
\* file is empty (fieldnames is None and iterating it raises TypeError)
OpenFail ==
  /\ pc = "start"
  /\ exists
  /\ \E cause \in {"open", "empty"} : ioError' = cause
  /\ Fatal
  /\ UNCHANGED <<mode, padYear, exists, fieldnames, headers, rows, locals, bills, categories,
                 payload, outfile>>

\* Lines 30-82: the reader yields a row and the loop body runs on it
ProcessRow ==
  /\ pc = "rows"
  /\ Len(rows) < RowBound(mode)
  /\ \E cells \in RowInputs(mode, fieldnames) :
       \E st \in {RowStep(locals, headers, fieldnames, cells, Len(rows), categories, bills, padYear)} :
          /\ rows' = Append(rows, cells)
          /\ locals' = st.locals
          /\ categories' = st.categories
          /\ bills' = st.bills
          /\ IF st.escaped = "none"
             THEN /\ out' = out \o st.lines
                  /\ UNCHANGED <<pc, result>>
             ELSE /\ out' = (out \o st.lines) \o <<Line("fatal", 0)>>
                  /\ result' = <<ReturnOnFailure>>
                  /\ pc' = "done"
  /\ UNCHANGED <<mode, padYear, exists, fieldnames, headers, payload, outfile, ioError>>

\* Line 30 raising: the reader fails while reading the next row (an I/O or
\* decoding error, csv.Error), outside the per-row try
ReadFail ==
  /\ pc = "rows"
  /\ ioError' = "read"
  /\ Fatal
  /\ UNCHANGED <<mode, padYear, exists, fieldnames, headers, rows, locals, bills, categories,
                 payload, outfile>>

\* Lines 84-89: the reader is exhausted and the payload is built
Assemble ==
  /\ pc = "rows"
  /\ payload' = Payload(bills, categories)
  /\ pc' = "write"
  /\ UNCHANGED <<mode, padYear, exists, fieldnames, headers, rows, locals, bills, categories,
                 out, outfile, ioError, result>>

\* Lines 91-95
WriteJson ==
  /\ pc = "write"
  /\ outfile' = [written |-> "yes", content |-> payload]
  /\ out' = Append(out, Line("success", Len(bills)))
  /\ result' = <<ReturnOnSuccess>>
  /\ pc' = "done"
  /\ UNCHANGED <<mode, padYear, exists, fieldnames, headers, rows, locals, bills, categories,
                 payload, ioError>>

\* Lines 91-92 raising: open() fails and leaves the file alone, or the dump
\* fails after open() truncated it
WriteFail ==
  /\ pc = "write"
  /\ ioError' = "write"
  /\ \E f \in {outfile, [written |-> "truncated", content |-> NoPayload]} : outfile' = f
  /\ Fatal
  /\ UNCHANGED <<mode, padYear, exists, fieldnames, headers, rows, locals, bills, categories,
                 payload>>

Next ==
  \/ NotFound
  \/ OpenCsv
  \/ OpenFail
  \/ ProcessRow
  \/ ReadFail
  \/ Assemble
  \/ WriteJson
  \/ WriteFail

Spec == Init /\ [][Next]_vars

SpecDate == InitDate /\ [][Next]_vars

SpecHeader == InitHeader /\ [][Next]_vars

\* ------------------------------------------------------------------ claims
True == <<"True">>

False == <<"False">>

\* The console reports row j (1-based) as skipped or failed.
Skipped(j) == \E k \in 1..Len(out) : out[k].n = j /\ out[k].kind \in {"skip", "error"}

Accepted(j) == ~Skipped(j)

\* The rows the console does not report as skipped, in input order.
AcceptedRows == SelectSeq([j \in 1..Len(rows) |-> j], Accepted)

\* What the six get_val calls return on row j.
FieldsOf(j) == Extract(headers, fieldnames, rows[j])

\* Row j has a cell for every field it is asked for, a non-empty name and a
\* non-empty raw due date: it passes the check of line 39.
PassesRequired(j) ==
  \A v \in {FieldsOf(j)} : FirstRaise(v) = 0 /\ v[1] # <<>> /\ v[3] # <<>>

\* Row j's amount, with every '$' and ',' removed, is no float literal.
AmountFails(j) == ~IsFloatLiteral(remove(remove(FieldsOf(j)[4], "$"), ","))

\* A row has just been processed: the step is one pass of the loop body.
RowProcessed == Len(rows') = Len(rows) + 1

\* C1: after any prefix of the rows, bills holds one record per accepted row
\* and none for a skipped row, in input order: the k-th bill carries the
\* fields of the k-th accepted row.
C1_BillsAreAcceptedRowsInOrder ==
  \A acc \in {AcceptedRows} :
    /\ Len(bills) = Len(acc)
    /\ \A k \in 1..Len(bills) :
         \A v \in {FieldsOf(acc[k])} :
           /\ bills[k].name = v[1]
           /\ bills[k].category = v[2]
           /\ bills[k].dueDate = NormalizeDate(v[3], padYear).date
           /\ bills[k].amountDue = AmountDue(v[4]).value
           /\ bills[k].recurrence = v[5]
           /\ bills[k].notes = v[6]

\* C1 witness: two accepted rows that differ, so that their order shows.
C1_Witness ==
  /\ Len(rows) = 2
  /\ Len(bills) = 2
  /\ bills[1] # bills[2]

\* C2: a row whose extracted name or raw due date is empty appends no bill
\* and adds no category, and the count of the success message is the number
\* of bills, which counts no such row.
C2_RequiredFieldsSkip ==
  [][ /\ RowProcessed =>
           \A v \in {Extract(headers, fieldnames, rows'[Len(rows')])} :
             (v[1] = <<>> \/ v[3] = <<>>) => bills' = bills /\ categories' = categories
      /\ result' = True =>
           /\ out'[Len(out')] = Line("success", Len(bills))
           /\ Len(bills) <= Cardinality({j \in 1..Len(rows) :
                                           \A v \in {FieldsOf(j)} : v[1] # <<>> /\ v[3] # <<>>})
    ]_vars

\* C2 witness: a run that succeeded with one bill after a row with a name, a
\* category and no due date.
C2_Witness ==
  /\ result = True
  /\ Len(bills) = 1
  /\ \E j \in 1..Len(rows) :
       \E v \in {FieldsOf(j)} :
         FirstRaise(v) = 0 /\ v[1] # <<>> /\ v[2] # <<>> /\ v[3] = <<>>

\* The categories of the rows that pass the required-field check.
SeenCategories ==
  {v[2] : v \in {w \in {FieldsOf(j) : j \in 1..Len(rows)} :
                   FirstRaise(w) = 0 /\ w[1] # <<>> /\ w[3] # <<>>}} \ {<<>>}

\* C3: the payload's customCategories is the strictly ascending sequence of
\* the non-empty categories of all rows that pass the required-field check,
\* whether or not their amount parses.
C3_CustomCategories ==
  payload # NoPayload =>
    \A cc \in {payload.customCategories} :
      /\ \A k \in 1..(Len(cc) - 1) : StrLess(cc[k], cc[k + 1])
      /\ {cc[k] : k \in 1..Len(cc)} = SeenCategories

\* C3 witness: a payload with two categories, one of them carried by no bill.
C3_Witness ==
  /\ payload # NoPayload
  /\ Len(payload.customCategories) = 2
  /\ \E k \in 1..2 : \A b \in 1..Len(bills) : bills[b].category # payload.customCategories[k]

\* The column a logical field resolves to: the last one whose header, trimmed
\* and lower-cased, is the field's name lower-cased; 0 when there is none.
ColumnOf(key) ==
  LET idx == {j \in 1..Len(fieldnames) : lower(strip(fieldnames[j])) = lower(key)}
  IN IF idx = {} THEN 0 ELSE CHOOSE j \in idx : \A m \in idx : m <= j

FieldKeys == <<kName, kCategory, kDueDate, kAmount, kRecurrence, kNotes>>

FieldDefaults == << <<>>, dOther, <<>>, dZero, dMonthly, <<>> >>

\* The last row read has a cell in every column a logical field resolves to.
LastRowComplete ==
  /\ rows # <<>>
  /\ \A f \in 1..6 : ColumnOf(FieldKeys[f]) <= Len(rows[Len(rows)])

\* C4 as stated: get_val returns the trimmed cell when the header is present
\* and the cell is not empty, and the default when the header is absent or
\* the cell is empty.
C4_DefaultWhenBlank ==
  LastRowComplete =>
    \A f \in 1..6 :
      LET c == ColumnOf(FieldKeys[f])
          cell == rows[Len(rows)][c]
      IN locals[Locals[f]] =
           IF c # 0 /\ strip(cell) # <<>> THEN strip(cell) ELSE FieldDefaults[f]

\* C4 as amended: get_val returns the trimmed cell, empty or not, when the
\* header is present, and the default only when the header is absent; a
\* present but blank Category is "", and a present but blank Amount is "",
\* which is no float, so the row is reported as an error and gives no bill.
C4_DefaultOnlyWhenAbsent ==
  LastRowComplete =>
    /\ \A f \in 1..6 :
         LET c == ColumnOf(FieldKeys[f])
         IN locals[Locals[f]] =
              IF c # 0 THEN strip(rows[Len(rows)][c]) ELSE FieldDefaults[f]
    /\ ( /\ ColumnOf(kAmount) # 0
         /\ strip(rows[Len(rows)][ColumnOf(kAmount)]) = <<>>
         /\ locals.name # <<>>
         /\ locals.due_date # <<>> )
       => /\ Skipped(Len(rows))
          /\ Len(bills) < Len(rows)

\* C4 witness: a row with a Category header and a blank category cell, and a
\* blank amount cell, has been processed.
C4_Witness ==
  /\ LastRowComplete
  /\ ColumnOf(kCategory) # 0
  /\ ColumnOf(kAmount) # 0
  /\ rows[Len(rows)][ColumnOf(kCategory)] = sBlank
  /\ rows[Len(rows)][ColumnOf(kAmount)] = Empty
  /\ locals.category = <<>>
  /\ locals.name # <<>>
  /\ locals.due_date # <<>>

\* C5: a row that passes the required-field check and whose amount does not
\* parse leaves bills unchanged and the loop running.
C5_BadAmountSkipsRow ==
  [][ RowProcessed =>
        \A v \in {Extract(headers, fieldnames, rows'[Len(rows')])} :
           ( /\ FirstRaise(v) = 0
             /\ v[1] # <<>>
             /\ v[3] # <<>>
             /\ ~IsFloatLiteral(remove(remove(v[4], "$"), ",")) )
           => /\ bills' = bills
              /\ pc' = "rows"
              /\ result' = None
              /\ out'[Len(out')] = Line("error", Len(rows'))
    ]_vars

\* C5 witness: a row with an unparseable amount, then a row that gave a bill.
C5_Witness ==
  /\ Len(rows) = 2
  /\ PassesRequired(1)
  /\ AmountFails(1)
  /\ Len(bills) = 1

\* C6: with an input file that opens and has a header row, and no I/O error,
\* the run never fails: every row read ends in a bill or in a console line
\* for it, and the run ends with the payload written and success returned.
C6_RowErrorsNeverAbort ==
  (exists /\ ioError = "none") =>
    /\ result # False
    /\ pc # "start" =>
         Len(rows) = Len(bills) + Cardinality({j \in 1..Len(rows) : Skipped(j)})
    /\ pc = "done" =>
         /\ result = True
         /\ outfile = [written |-> "yes", content |-> Payload(bills, categories)]

\* C6 witness: a run that succeeded after a row with fewer cells than headers
\* and a row with an unparseable amount.
C6_Witness ==
  /\ result = True
  /\ Len(rows) = 2
  /\ \E j \in 1..2 : Len(rows[j]) < Len(fieldnames) /\ FirstRaise(FieldsOf(j)) # 0
  /\ \E j \in 1..2 : PassesRequired(j) /\ AmountFails(j)

\* The format the claim's words select for a raw date.
ClaimedFormat(raw) ==
  IF \E k \in 1..Len(raw) : raw[k] = "-"
  THEN (IF Len(split(raw, "-")[1]) = 2 THEN fmt_y_m_d ELSE fmt_Y_m_d)
  ELSE IF \E k \in 1..Len(raw) : raw[k] = "/"
  THEN (IF Len(split(raw, "/")[Len(split(raw, "/"))]) = 2 THEN fmt_mdy ELSE fmt_mdY)
  ELSE fmt_Ymd

\* s has the shape YYYY-MM-DD.
IsIsoShape(s) ==
  /\ Len(s) = 10
  /\ \A k \in {1, 2, 3, 4, 6, 7, 9, 10} : IsDigit(s[k])
  /\ s[5] = "-"
  /\ s[8] = "-"

\* The date s of shape YYYY-MM-DD stands for.
IsoDate(s) == <<IntOf(SubSeq(s, 1, 4)), IntOf(SubSeq(s, 6, 7)), IntOf(SubSeq(s, 9, 10))>>

\* C7: every row with a name and a raw due date gives a bill; its dueDate is
\* the YYYY-MM-DD rendering of the raw date when the raw date parses under
\* the format its separator and token shape select, and the raw date itself
\* when it does not.
C7_DueDateNormalized ==
  \A j \in 1..Len(rows) :
    PassesRequired(j) /\ ~AmountFails(j) =>
      /\ Accepted(j)
      /\ \E k \in 1..Len(bills) :
           \A raw \in {FieldsOf(j)[3]} :
             \A dt \in {strptime(raw, ClaimedFormat(raw))} :
               IF dt.exc = "none"
               THEN IsIsoShape(bills[k].dueDate) /\ IsoDate(bills[k].dueDate) = dt.date
               ELSE bills[k].dueDate = raw

\* The year the raw due date of row j names, 0 when it does not parse.
YearOf(j) == strptime(FieldsOf(j)[3], ClaimedFormat(FieldsOf(j)[3])).date[1]

\* C7, where it holds: on a platform whose strftime pads %Y, and for the
\* rows whose year has four digits on any platform.
C7_PaddedOrFourDigitYear ==
  \A j \in 1..Len(rows) :
    (PassesRequired(j) /\ ~AmountFails(j) /\ (padYear \/ YearOf(j) >= 1000 \/ YearOf(j) = 0)) =>
      /\ Accepted(j)
      /\ \E k \in 1..Len(bills) :
           \A raw \in {FieldsOf(j)[3]} :
             \A dt \in {strptime(raw, ClaimedFormat(raw))} :
               IF dt.exc = "none"
               THEN IsIsoShape(bills[k].dueDate) /\ IsoDate(bills[k].dueDate) = dt.date
               ELSE bills[k].dueDate = raw

\* C8: success is returned only with the payload written; a missing input
\* file or an I/O error ends the run with failure; with a missing input no
\* row is processed and the output file is not written.
C8_FatalErrorsFail ==
  /\ result = True => outfile = [written |-> "yes", content |-> payload] /\ payload # NoPayload
  /\ (pc = "done" /\ (~exists \/ ioError # "none")) => result = False
  /\ ~exists => rows = <<>> /\ fieldnames = None /\ outfile.written = "no"

\* C8 witness: a run that failed while writing the payload.
C8_Witness ==
  /\ pc = "done"
  /\ ioError = "write"
  /\ result = False
  /\ bills # <<>>

\* The last column whose header spells the logical field key, 0 when none.
SpelledColumn(key) ==
  LET idx == {j \in 1..Len(fieldnames) : CanonOf(fieldnames[j]) = key}
  IN IF idx = {} THEN 0 ELSE CHOOSE j \in idx : \A m \in idx : m <= j

\* C9: however the headers are spelled (exactly, in another case, with
\* surrounding whitespace), each logical field resolves to the column that
\* spells it, every row yields the values it yields under the exact
\* spelling, and a field with no header yields its default and no error.
C9_HeaderLookupInsensitive ==
  pc \notin {"start"} /\ fieldnames # None =>
    /\ \A f \in 1..6 :
         LET c == SpelledColumn(FieldKeys[f])
         IN IF c = 0 THEN lower(FieldKeys[f]) \notin DOMAIN headers
            ELSE /\ lower(FieldKeys[f]) \in DOMAIN headers
                 /\ headers[lower(FieldKeys[f])] = fieldnames[c]
    /\ \A j \in 1..Len(rows) :
         LET exact == [k \in 1..Len(fieldnames) |-> CanonOf(fieldnames[k])]
         IN /\ FieldsOf(j) = Extract(HeaderIndex(exact), exact, rows[j])
            /\ \A f \in 1..6 :
                 SpelledColumn(FieldKeys[f]) = 0 => FieldsOf(j)[f] = FieldDefaults[f]
    /\ LastRowComplete =>
         \A f \in 1..6 :
           LET c == SpelledColumn(FieldKeys[f])
           IN c # 0 => locals[Locals[f]] = strip(rows[Len(rows)][c])

\* C9 witness: a row read under headers in another case and with surrounding
\* whitespace, with one header absent.
C9_Witness ==
  /\ LastRowComplete
  /\ \E k \in 1..Len(fieldnames) : fieldnames[k] = Respell("padded", kDueDate)
  /\ SpelledColumn(kCategory) = 0
  /\ locals.name = strip(sGas)
  /\ locals.category = dOther

\* C10: every bill has a non-empty name and a non-empty dueDate, and the
\* empty-date warning is never printed.
C10_BillsHaveNameAndDate ==
  /\ \A k \in 1..Len(bills) : bills[k].name # <<>> /\ bills[k].dueDate # <<>>
  /\ \A k \in 1..Len(out) : out[k].kind # "warn_empty"

\* C10 witness: a row with a name and an empty due date, and a bill.
C10_Witness ==
  /\ bills # <<>>
  /\ \E j \in 1..Len(rows) :
       \E v \in {FieldsOf(j)} : FirstRaise(v) = 0 /\ v[1] # <<>> /\ v[3] = <<>>

====
